---- MODULE Spec2Model ----
(***************************************************************************)
(* Model of the Kaboot WebSocket game server (server.js): the games map,   *)
(* the per-connection closure variables (role, currentGameCode, playerId)  *)
(* and the message and close handlers of every connection.                 *)
(*                                                                         *)
(* JavaScript values carried by a message are tagged records (field t is   *)
(* the result of typeof / Array.isArray).  A number n is kept as 2*n in    *)
(* the field twice, so that the fractional values JSON can carry (0.5,     *)
(* 1.5, ...) are representable.  A string is a sequence of one-character   *)
(* strings.                                                                *)
(***************************************************************************)
EXTENDS Integers, Sequences, FiniteSets, TLC

\* ------------------------------------------------------------------ bounds
NumConns == 2       \* WebSocket connections accepted by wss
NumCodes == 1       \* size of the game-code space drawn by generateGameCode
NumStoreCodes == 2  \* the same, in the specification of the store (SpecStore)
MaxIds == 2         \* number of randomUUID() player ids drawn in a run
MaxOptLen == 7      \* longest options array a host sends

\* --------------------------------------------------------------- constants
MAX_OPTIONS == 6
NameCap == 40

Conns == 1..NumConns
Codes == 1..NumCodes
StoreCodes == 1..NumStoreCodes
Ids == 1..MaxIds
NoCode == 0         \* currentGameCode = null, or a falsy code in a message
NoId == 0           \* playerId = null

\* ------------------------------------------------------- JavaScript values
Undefined == [t |-> "undefined"]
Str(s) == [t |-> "string", s |-> s]
Num(k) == [t |-> "number", twice |-> k]
Arr(a) == [t |-> "array", a |-> a]

Truthy(v) ==
  CASE v.t = "string" -> v.s # <<>>
    [] v.t = "number" -> v.twice # 0
    [] v.t = "array" -> TRUE
    [] OTHER -> FALSE

IsSpace(ch) == ch = " "

RECURSIVE TrimStart(_)
TrimStart(s) ==
  IF s = <<>> THEN <<>>
  ELSE IF IsSpace(Head(s)) THEN TrimStart(Tail(s)) ELSE s

RECURSIVE TrimEnd(_)
TrimEnd(s) ==
  IF s = <<>> THEN <<>>
  ELSE IF IsSpace(s[Len(s)]) THEN TrimEnd(SubSeq(s, 1, Len(s) - 1)) ELSE s

\* String.prototype.trim
Trim(s) == TrimEnd(TrimStart(s))

\* String.prototype.slice(0, n)
Slice0(s, n) == SubSeq(s, 1, IF Len(s) < n THEN Len(s) ELSE n)

\* options.map((option) => option.trim()).filter(Boolean)
NonEmpty(s) == s # <<>>
\* (mutant: the mapped array is not filtered)
TrimmedOptions_NoFilter(options) ==
  [i \in 1..Len(options.a) |-> Trim(options.a[i].s)]

TrimmedOptions(options) ==
  SelectSeq([i \in 1..Len(options.a) |-> Trim(options.a[i].s)], NonEmpty)

\* --------------------------------------------------------------- map tools
Put(f, k, v) == [x \in (DOMAIN f) \cup {k} |-> IF x = k THEN v ELSE f[x]]
\* (mutant: the key is not deleted)
Remove_Nothing(f, k) == f

Remove(f, k) == [x \in (DOMAIN f) \ {k} |-> f[x]]
EmptyMap == [x \in {} |-> 0]

Min(S) == CHOOSE x \in S : \A y \in S : x <= y

\* Iteration order of a Map keyed by player id: insertion order.  Ids are
\* drawn in increasing order and never re-inserted, so it is the id order.
RECURSIVE KeysInOrder(_)
KeysInOrder(S) ==
  IF S = {} THEN <<>> ELSE <<Min(S)>> \o KeysInOrder(S \ {Min(S)})

RECURSIVE Flatten(_)
Flatten(ss) == IF ss = <<>> THEN <<>> ELSE Head(ss) \o Flatten(Tail(ss))

\* ------------------------------------------------------------------- state
VARIABLES
  games,            \* the games Map: code -> game
  role,             \* per connection: "null", "host", "player"
  currentGameCode,  \* per connection: a code or NoCode
  playerId,         \* per connection: an id or NoId
  readyState,       \* per connection: "PENDING" (not yet accepted), "OPEN", "CLOSED"
  nextId,           \* the next fresh value of randomUUID()
  last,             \* the event handled last
  sent,             \* the messages handed to socket.send by that handler
  issued,           \* history: the codes generateGameCode has returned so far
  creators,         \* history: the connections whose create_game was accepted
  running,          \* the server process is alive (no exception has left a listener)
  gen               \* the call of generateGameCode in progress (SpecGen), or idle

hist == <<issued, creators>>
vars == <<games, role, currentGameCode, playerId, readyState, nextId, last, sent, hist,
          running, gen>>

\* ----------------------------------------------------------------- fan-out
\* (mutant: the readyState test is dropped)
send_Always(op, socket, payload) == <<[to |-> socket, msg |-> payload]>>

\* send(socket, payload): skipped unless the socket is OPEN
send(op, socket, payload) ==
  IF op[socket] = "OPEN" THEN <<[to |-> socket, msg |-> payload]>> ELSE <<>>

\* (mutant: the roster is not visited)
broadcastToPlayers_None(op, game, payload) == <<>>

\* broadcastToPlayers(game, payload)
broadcastToPlayers(op, game, payload) ==
  LET ks == KeysInOrder(DOMAIN game.players)
  IN Flatten([i \in 1..Len(ks) |-> send(op, game.players[ks[i]].socket, payload)])

\* (mutant: the roster view is empty)
serializePlayers_Empty(game) == <<>>

\* serializePlayers(game)
serializePlayers(game) ==
  LET ks == KeysInOrder(DOMAIN game.players)
  IN [i \in 1..Len(ks) |->
        [id |-> ks[i], name |-> game.players[ks[i]].name,
         hasVoted |-> game.players[ks[i]].hasVoted]]

Err(text) == [type |-> "error", message |-> text]

\* ------------------------------------------------------------------- tally
\* (mutant: the increment is lost)
Bump_Nothing(counts, choiceIndex) == counts

\* counts[player.choiceIndex] += 1 on an array of Len(options) zeros.  A
\* choiceIndex that is not an array index (0.5) creates a property that is
\* not an element of the array and is not serialized.
Bump(counts, choiceIndex) ==
  IF choiceIndex.twice % 2 = 0 /\ choiceIndex.twice \div 2 + 1 \in DOMAIN counts
  THEN [counts EXCEPT ![choiceIndex.twice \div 2 + 1] = @ + 1]
  ELSE counts

RECURSIVE CountLoop(_, _, _)
CountLoop(counts, players, ks) ==
  IF ks = <<>> THEN counts
  ELSE CountLoop(
         IF players[Head(ks)].choiceIndex.t = "number"
         THEN Bump(counts, players[Head(ks)].choiceIndex) ELSE counts,
         players, Tail(ks))

\* (mutant: the loop misses the first roster entry)
countVotes_SkipsFirst(game) ==
  LET ks == KeysInOrder(DOMAIN game.players)
  IN CountLoop([i \in 1..Len(game.options) |-> 0], game.players,
               IF ks = <<>> THEN ks ELSE Tail(ks))

countVotes(game) ==
  CountLoop([i \in 1..Len(game.options) |-> 0], game.players,
            KeysInOrder(DOMAIN game.players))

\* ------------------------------------------------------------------ inputs
Letters == <<"a", "b", "c", "d", "e", "f", "g", "h", "i", "j">>
Fill(n) == [i \in 1..n |-> Str(<<Letters[i]>>)]

\* The (question, options) pairs a host sends in create_game and update_poll
PollInputs ==
  { <<Str(<<>>), Arr(Fill(2))>>,
    <<Str(<<" ">>), Arr(Fill(2))>>,
    <<Str(<<"q">>), Undefined>>,
    <<Str(<<"q">>), Arr(Fill(1))>>,
    <<Str(<<"q">>), Arr(<<Str(<<"a">>), Str(<<" ">>)>>)>>,
    <<Str(<<" ", "q", " ">>), Arr(<<Str(<<" ", "a">>), Str(<<>>), Str(<<"b", " ">>)>>)>>,
    <<Str(<<"q">>), Arr(<<Str(<<" ">>)>> \o Fill(MaxOptLen))>> }

\* Pairs in which the question or an option is a number: JSON carries them,
\* and a number has no trim method
UntypedPollInputs ==
  { <<Num(2), Arr(Fill(2))>>,
    <<Num(2), Arr(Fill(1))>>,
    <<Str(<<"q">>), Arr(<<Str(<<"a">>), Num(2), Str(<<"b">>)>>)>> }

RoleInputs == { "host", "player", "admin" }
CodeInputs == Codes \cup {NoCode}
NameInputs == { Undefined, Str(<<" ", "n">>), Num(2) }
\* not a number, -1, 0, 0.5, 1, and the length of the longest options array
ChoiceInputs == { Undefined, Num(-2), Num(0), Num(1), Num(2), Num(2 * MaxOptLen) }

\* -------------------------------------------------------------------- Init
\* no call of generateGameCode is in progress
GenIdle == [pc |-> "idle", conn |-> 0, poll |-> <<>>, code |-> NoCode, collided |-> FALSE]

Init ==
  /\ games = EmptyMap
  /\ role = [c \in Conns |-> "null"]
  /\ currentGameCode = [c \in Conns |-> NoCode]
  /\ playerId = [c \in Conns |-> NoId]
  /\ readyState = [c \in Conns |-> "PENDING"]
  /\ nextId = 1
  /\ last = [type |-> "none", conn |-> 0]
  /\ sent = <<>>
  /\ issued = {}
  /\ creators = {}
  /\ running = TRUE
  /\ gen = GenIdle

\* (mutant: any identified connection passes for a host)
IsHost_Identified(c) == role[c] # "null"

\* role === 'host'
IsHost(c) == role[c] = "host"

\* role === 'player'
IsPlayer(c) == role[c] = "player"

\* (mutant: no session ever counts as active)
IsActive_Never(game) == FALSE

\* game.state === 'active'
IsActive(game) == game.state = "active"

HasGame(c) == currentGameCode[c] # NoCode /\ currentGameCode[c] \in DOMAIN games

\* (mutant: the reset forgets choiceIndex)
ClearVotes_KeepsChoice(players) ==
  [p \in DOMAIN players |-> [players[p] EXCEPT !.hasVoted = FALSE]]

\* (mutant: the loop body never runs)
ClearVotes_Nothing(players) == players

\* players.forEach: hasVoted = false, choiceIndex = undefined
ClearVotes(players) ==
  [p \in DOMAIN players |->
     [players[p] EXCEPT !.hasVoted = FALSE, !.choiceIndex = Undefined]]

\* ------------------------------------------------------ uncaught exception
\* A TypeError thrown inside the 'message' listener: nothing catches it, the
\* process exits; its sockets are closed with it and the games Map and the
\* closures of the connections are gone.
Uncaught ==
  /\ running' = FALSE
  /\ games' = EmptyMap
  /\ role' = [d \in Conns |-> "null"]
  /\ currentGameCode' = [d \in Conns |-> NoCode]
  /\ playerId' = [d \in Conns |-> NoId]
  /\ readyState' = [d \in Conns |->
                      IF readyState[d] = "OPEN" THEN "CLOSED" ELSE readyState[d]]
  /\ sent' = <<>>
  /\ UNCHANGED <<nextId, hist>>

\* option.trim() on an option that is not a string
OptionThrows(options) == \E i \in 1..Len(options.a) : options.a[i].t # "string"

\* question.trim() on a question that is not a string
QuestionThrows(question) == question.t # "string"

\* -------------------------------------------------------------- connection
\* wss.on('connection'): connections are numbered in the order of acceptance
Connect(c) ==
  /\ readyState[c] = "PENDING"
  /\ running /\ UNCHANGED <<hist, running, gen>>
  /\ \A d \in Conns : d < c => readyState[d] # "PENDING"
  /\ readyState' = [readyState EXCEPT ![c] = "OPEN"]
  /\ role' = [role EXCEPT ![c] = "null"]
  /\ currentGameCode' = [currentGameCode EXCEPT ![c] = NoCode]
  /\ playerId' = [playerId EXCEPT ![c] = NoId]
  /\ last' = [type |-> "connection", conn |-> c]
  /\ sent' = <<>>
  /\ UNCHANGED <<games, nextId>>

\* ---------------------------------------------------------------- identify
Identify(c, r) ==
  /\ readyState[c] = "OPEN"
  /\ running /\ UNCHANGED <<hist, running, gen>>
  /\ last' = [type |-> "identify", conn |-> c]
  /\ IF r \notin {"host", "player"}
     THEN /\ sent' = send(readyState, c, Err("Unknown role specified."))
          /\ UNCHANGED role
     ELSE /\ role' = [role EXCEPT ![c] = r]
          /\ sent' = send(readyState, c, [type |-> "identified", role |-> r])
  /\ UNCHANGED <<games, currentGameCode, playerId, readyState, nextId>>

\* -------------------------------------------------------- host:create_game
\* !question || !Array.isArray(options) || options.length < 2
MissingPoll(question, options) ==
  ~Truthy(question) \/ options.t # "array" \/ Len(options.a) < 2

\* (mutant: the first draw is returned, without the games.has test)
generateGameCode_NoRetry(codes) == codes

\* generateGameCode(): the codes a terminating run of the retry loop can return
generateGameCode(codes) == codes \ DOMAIN games

\* the frames of a host on which the handler throws: an option that is not a
\* string (line 111), or a question that is not a string once a code has been
\* drawn (line 123)
CreateThrows(codes, c, question, options) ==
  /\ IsHost(c) /\ ~MissingPoll(question, options)
  /\ \/ OptionThrows(options)
     \/ /\ Len(TrimmedOptions(options)) >= 2
        /\ generateGameCode(codes) # {}
        /\ QuestionThrows(question)

CreateGameIn(codes, c, question, options) ==
  /\ readyState[c] = "OPEN"
  /\ running
  /\ last' = [type |-> "host:create_game", conn |-> c]
  /\ IF CreateThrows(codes, c, question, options)
     THEN Uncaught
     ELSE
       /\ IF ~IsHost(c)
          THEN /\ sent' = send(readyState, c, Err("Only hosts can create games."))
               /\ UNCHANGED <<games, currentGameCode, hist>>
          ELSE IF MissingPoll(question, options)
          THEN /\ sent' = send(readyState, c,
                      Err("A question and at least two options are required to start a poll."))
               /\ UNCHANGED <<games, currentGameCode, hist>>
          ELSE IF Len(TrimmedOptions(options)) < 2
          THEN /\ sent' = send(readyState, c, Err("Provide at least two non-empty answer options."))
               /\ UNCHANGED <<games, currentGameCode, hist>>
          ELSE \E code \in generateGameCode(codes) :
               LET game == [code |-> code, hostId |-> c, hostSocket |-> c,
                            question |-> Trim(question.s),
                            options |-> TrimmedOptions(options),
                            players |-> EmptyMap, state |-> "lobby"]
               IN /\ games' = Put(games, code, game)
                  /\ currentGameCode' = [currentGameCode EXCEPT ![c] = code]
                  /\ issued' = issued \cup {code}
                  /\ creators' = creators \cup {c}
                  /\ sent' = send(readyState, c,
                        [type |-> "host:game_created", code |-> code,
                         question |-> game.question, options |-> game.options])
       /\ UNCHANGED <<role, playerId, readyState, nextId, running>>

CreateGame(c, question, options) ==
  CreateGameIn(Codes, c, question, options) /\ UNCHANGED gen

CreateStoreGame(c, question, options) ==
  CreateGameIn(StoreCodes, c, question, options) /\ UNCHANGED gen

\* -------------------------------------------------------- host:update_poll
\* the frames of a host with a live session on which the handler throws
\* (lines 159 and 168)
UpdateThrows(c, question, options) ==
  /\ IsHost(c) /\ HasGame(c) /\ ~MissingPoll(question, options)
  /\ \/ OptionThrows(options)
     \/ Len(TrimmedOptions(options)) >= 2 /\ QuestionThrows(question)

UpdatePoll(c, question, options) ==
  /\ readyState[c] = "OPEN"
  /\ running /\ UNCHANGED gen
  /\ last' = [type |-> "host:update_poll", conn |-> c]
  /\ IF UpdateThrows(c, question, options)
     THEN Uncaught
     ELSE
       /\ IF ~IsHost(c)
          THEN /\ sent' = send(readyState, c, Err("Only hosts can update polls."))
               /\ UNCHANGED games
          ELSE IF ~HasGame(c)
          THEN /\ sent' = send(readyState, c, Err("Create a game before updating the poll."))
               /\ UNCHANGED games
          ELSE IF MissingPoll(question, options)
          THEN /\ sent' = send(readyState, c,
                      Err("A question and at least two options are required."))
               /\ UNCHANGED games
          ELSE IF Len(TrimmedOptions(options)) < 2
          THEN /\ sent' = send(readyState, c, Err("Provide at least two non-empty answer options."))
               /\ UNCHANGED games
          ELSE LET old == games[currentGameCode[c]]
                   game == [old EXCEPT !.question = Trim(question.s),
                                       !.options = TrimmedOptions(options),
                                       !.state = "lobby",
                                       !.players = ClearVotes(old.players)]
               IN /\ games' = [games EXCEPT ![currentGameCode[c]] = game]
                  /\ sent' =
                       send(readyState, c, [type |-> "host:poll_updated",
                                      question |-> game.question, options |-> game.options])
                       \o send(readyState, c, [type |-> "host:players_updated",
                                         players |-> serializePlayers(game)])
                       \o broadcastToPlayers(readyState, game, [type |-> "poll:reset",
                             message |-> "The host is preparing a new poll. Please wait for the next question."])
       /\ UNCHANGED <<role, currentGameCode, playerId, readyState, nextId, hist, running>>

\* --------------------------------------------------------- host:start_poll
\* History for the observer: how many roster entries of the connection's game
\* had hasVoted = true when the frame arrived
VotedBefore(c) ==
  IF HasGame(c)
  THEN Cardinality({p \in DOMAIN games[currentGameCode[c]].players :
                      games[currentGameCode[c]].players[p].hasVoted})
  ELSE 0

StartPoll(c) ==
  /\ readyState[c] = "OPEN"
  /\ running /\ UNCHANGED <<hist, running, gen>>
  /\ last' = [type |-> "host:start_poll", conn |-> c, voted |-> VotedBefore(c)]
  /\ IF ~IsHost(c)
     THEN /\ sent' = send(readyState, c, Err("Only hosts can start polls."))
          /\ UNCHANGED games
     ELSE IF ~HasGame(c)
     THEN /\ sent' = send(readyState, c, Err("Create a game before starting the poll."))
          /\ UNCHANGED games
     ELSE IF IsActive(games[currentGameCode[c]])
     THEN /\ sent' = send(readyState, c, Err("A poll is already in progress."))
          /\ UNCHANGED games
     ELSE LET old == games[currentGameCode[c]]
              game == [old EXCEPT !.state = "active",
                                  !.players = ClearVotes(old.players)]
          IN /\ games' = [games EXCEPT ![currentGameCode[c]] = game]
             /\ sent' =
                  send(readyState, c, [type |-> "host:players_updated",
                                 players |-> serializePlayers(game)])
                  \o broadcastToPlayers(readyState, game, [type |-> "poll:start",
                        question |-> game.question, options |-> game.options])
                  \o send(readyState, c, [type |-> "host:poll_started"])
  /\ UNCHANGED <<role, currentGameCode, playerId, readyState, nextId>>

\* ----------------------------------------------------------- host:end_poll
EndPoll(c) ==
  /\ readyState[c] = "OPEN"
  /\ running /\ UNCHANGED <<hist, running, gen>>
  /\ last' = [type |-> "host:end_poll", conn |-> c]
  /\ IF ~IsHost(c)
     THEN /\ sent' = send(readyState, c, Err("Only hosts can end polls."))
          /\ UNCHANGED games
     ELSE IF ~HasGame(c)
     THEN /\ sent' = send(readyState, c, Err("Create a game before ending the poll."))
          /\ UNCHANGED games
     ELSE IF ~IsActive(games[currentGameCode[c]])
     THEN /\ sent' = send(readyState, c, Err("The poll is not currently running."))
          /\ UNCHANGED games
     ELSE LET game == [games[currentGameCode[c]] EXCEPT !.state = "ended"]
              results == countVotes(game)
          IN /\ games' = [games EXCEPT ![currentGameCode[c]] = game]
             /\ sent' =
                  send(readyState, c, [type |-> "host:poll_results", results |-> results])
                  \o broadcastToPlayers(readyState, game, [type |-> "poll:results",
                        question |-> game.question, options |-> game.options,
                        results |-> results])
  /\ UNCHANGED <<role, currentGameCode, playerId, readyState, nextId>>

\* ------------------------------------------------------------- player:join
Null == <<"null">>

\* (mutant: the connection remembers the code it asked for)
JoinNotFound_KeepsCode(c, code) ==
  /\ sent' = send(readyState, c, Err("No game found with that code."))
  /\ currentGameCode' = [currentGameCode EXCEPT ![c] = code]
  /\ UNCHANGED <<games, playerId, nextId>>

\* if (!game): the error reply, before any assignment
JoinNotFound(c, code) ==
  /\ sent' = send(readyState, c, Err("No game found with that code."))
  /\ UNCHANGED <<games, currentGameCode, playerId, nextId>>

\* (mutant: a late joiner is not shown the running round)
LateJoinerStart_Never(op, c, game) == <<>>

\* if (game.state === 'active') send(socket, poll:start)
LateJoinerStart(op, c, game) ==
  IF IsActive(game)
  THEN send(op, c, [type |-> "poll:start",
                    question |-> game.question, options |-> game.options])
  ELSE <<>>

\* name.trim() on a name that is not a string (line 288), for a player that
\* names a live session
JoinThrows(c, code, name) ==
  /\ IsPlayer(c) /\ code # NoCode /\ Truthy(name)
  /\ code \in DOMAIN games
  /\ name.t # "string"

Join(c, code, name) ==
  /\ readyState[c] = "OPEN"
  /\ running /\ UNCHANGED gen
  /\ last' = [type |-> "player:join", conn |-> c]
  /\ IF JoinThrows(c, code, name)
     THEN Uncaught
     ELSE
       /\ IF ~IsPlayer(c)
          THEN /\ sent' = send(readyState, c, Err("Only players can join games."))
               /\ UNCHANGED <<games, currentGameCode, playerId, nextId>>
          ELSE IF code = NoCode \/ ~Truthy(name)
          THEN /\ sent' = send(readyState, c, Err("A game code and display name are required."))
               /\ UNCHANGED <<games, currentGameCode, playerId, nextId>>
          ELSE IF code \notin DOMAIN games
          THEN JoinNotFound(c, code)
          ELSE /\ nextId \in Ids                      \* randomUUID()
               /\ LET player == [id |-> nextId, name |-> Slice0(Trim(name.s), NameCap),
                                 socket |-> c, hasVoted |-> FALSE,
                                 choiceIndex |-> Undefined]
                      game == [games[code] EXCEPT !.players = Put(@, nextId, player)]
                      active == IsActive(game)
                  IN /\ playerId' = [playerId EXCEPT ![c] = nextId]
                     /\ currentGameCode' = [currentGameCode EXCEPT ![c] = code]
                     /\ nextId' = nextId + 1
                     /\ games' = [games EXCEPT ![code] = game]
                     /\ sent' =
                          send(readyState, c, [type |-> "player:joined", code |-> code,
                                question |-> IF active THEN game.question ELSE Null,
                                options |-> IF active THEN game.options ELSE Null])
                          \o send(readyState, game.hostSocket, [type |-> "host:players_updated",
                                      players |-> serializePlayers(game)])
                          \o LateJoinerStart(readyState, c, game)
       /\ UNCHANGED <<role, readyState, hist, running>>

\* ------------------------------------------------------------- player:vote
\* (mutant: the handler without the duplicate-vote guard)
AlreadyVoted_Never(player) == FALSE

\* if (player.hasVoted)
AlreadyVoted(player) == player.hasVoted

\* (mutant: every roster entry is marked)
MarkVoted_All(players, id, choiceIndex) ==
  [p \in DOMAIN players |->
     [players[p] EXCEPT !.hasVoted = TRUE, !.choiceIndex = choiceIndex]]

\* (mutant: recording a vote resets the other entries)
MarkVoted_Exclusive(players, id, choiceIndex) ==
  [p \in DOMAIN players |->
     IF p = id
     THEN [players[p] EXCEPT !.hasVoted = TRUE, !.choiceIndex = choiceIndex]
     ELSE [players[p] EXCEPT !.hasVoted = FALSE, !.choiceIndex = Undefined]]

\* player.hasVoted = true; player.choiceIndex = choiceIndex
MarkVoted(players, id, choiceIndex) ==
  [players EXCEPT ![id].hasVoted = TRUE, ![id].choiceIndex = choiceIndex]

\* typeof choiceIndex !== 'number' || choiceIndex < 0 || choiceIndex >= game.options.length
InvalidChoice(choiceIndex, game) ==
  \/ choiceIndex.t # "number"
  \/ choiceIndex.twice < 0
  \/ choiceIndex.twice >= 2 * Len(game.options)

Vote(c, choiceIndex) ==
  /\ readyState[c] = "OPEN"
  /\ running /\ UNCHANGED <<hist, running, gen>>
  /\ last' = [type |-> "player:vote", conn |-> c]
  /\ IF ~IsPlayer(c)
     THEN /\ sent' = send(readyState, c, Err("Only players can vote."))
          /\ UNCHANGED games
     ELSE IF ~HasGame(c)
     THEN /\ sent' = send(readyState, c, Err("Join a game before voting."))
          /\ UNCHANGED games
     ELSE IF ~IsActive(games[currentGameCode[c]])
     THEN /\ sent' = send(readyState, c, Err("Voting is not open at the moment."))
          /\ UNCHANGED games
     ELSE IF playerId[c] \notin DOMAIN games[currentGameCode[c]].players
     THEN /\ sent' = send(readyState, c, Err("You are not part of this game."))
          /\ UNCHANGED games
     ELSE IF AlreadyVoted(games[currentGameCode[c]].players[playerId[c]])
     THEN /\ sent' = send(readyState, c, Err("You have already voted in this poll."))
          /\ UNCHANGED games
     ELSE IF InvalidChoice(choiceIndex, games[currentGameCode[c]])
     THEN /\ sent' = send(readyState, c, Err("Please select a valid option."))
          /\ UNCHANGED games
     ELSE LET old == games[currentGameCode[c]]
              game == [old EXCEPT !.players = MarkVoted(@, playerId[c], choiceIndex)]
          IN /\ games' = [games EXCEPT ![currentGameCode[c]] = game]
             /\ sent' =
                  send(readyState, c, [type |-> "player:voted", choiceIndex |-> choiceIndex])
                  \o send(readyState, game.hostSocket, [type |-> "host:players_updated",
                              players |-> serializePlayers(game)])
                  \o send(readyState, game.hostSocket, [type |-> "host:poll_progress",
                              results |-> countVotes(game)])
  /\ UNCHANGED <<role, currentGameCode, playerId, readyState, nextId>>

\* ------------------------------------------- unparseable and unknown frames
\* (mutant: the error goes to every open connection)
BadJson_ToAll(c) ==
  /\ readyState[c] = "OPEN"
  /\ running /\ UNCHANGED <<hist, running, gen>>
  /\ last' = [type |-> "invalid-json", conn |-> c]
  /\ sent' = Flatten([d \in Conns |->
                 send(readyState, d, Err("Invalid JSON payload received."))])
  /\ UNCHANGED <<games, role, currentGameCode, playerId, readyState, nextId>>

BadJson(c) ==
  /\ readyState[c] = "OPEN"
  /\ running /\ UNCHANGED <<hist, running, gen>>
  /\ last' = [type |-> "invalid-json", conn |-> c]
  /\ sent' = send(readyState, c, Err("Invalid JSON payload received."))
  /\ UNCHANGED <<games, role, currentGameCode, playerId, readyState, nextId>>

\* JSON.parse returns null for the text "null": message.type throws
NullFrame(c) ==
  /\ readyState[c] = "OPEN"
  /\ running /\ UNCHANGED gen
  /\ last' = [type |-> "null", conn |-> c]
  /\ Uncaught

UnknownType(c) ==
  /\ readyState[c] = "OPEN"
  /\ running /\ UNCHANGED <<hist, running, gen>>
  /\ last' = [type |-> "unknown", conn |-> c]
  /\ sent' = send(readyState, c, Err("Unknown message type received."))
  /\ UNCHANGED <<games, role, currentGameCode, playerId, readyState, nextId>>

\* ------------------------------------------------------------ socket close
\* destroyGame(code), with the readyState of the sockets at that moment
destroyGameSent(op, code) ==
  IF code \notin DOMAIN games THEN <<>>
  ELSE broadcastToPlayers(op, games[code], [type |-> "game:ended",
         message |-> "The host has disconnected. The poll has ended."])

destroyGame(code) ==
  IF code \notin DOMAIN games THEN games ELSE Remove(games, code)

Close(c) ==
  /\ readyState[c] = "OPEN"
  /\ running /\ UNCHANGED <<hist, running, gen>>
  /\ readyState' = [readyState EXCEPT ![c] = "CLOSED"]
  /\ last' = [type |-> "close", conn |-> c]
  /\ IF IsHost(c) /\ currentGameCode[c] # NoCode
     THEN /\ games' = destroyGame(currentGameCode[c])
          /\ sent' = destroyGameSent(readyState', currentGameCode[c])
     ELSE IF IsPlayer(c) /\ HasGame(c) /\ playerId[c] # NoId
     THEN LET game == [games[currentGameCode[c]] EXCEPT
                         !.players = Remove(@, playerId[c])]
          IN /\ games' = [games EXCEPT ![currentGameCode[c]] = game]
             /\ sent' = send(readyState', game.hostSocket, [type |-> "host:players_updated",
                               players |-> serializePlayers(game)])
     ELSE /\ UNCHANGED games
          /\ sent' = <<>>
  /\ UNCHANGED <<role, currentGameCode, playerId, nextId>>

Next ==
  \/ \E c \in Conns : Connect(c)
  \/ \E c \in Conns, r \in RoleInputs : Identify(c, r)
  \/ \E c \in Conns, p \in PollInputs \cup UntypedPollInputs : CreateGame(c, p[1], p[2])
  \/ \E c \in Conns, p \in PollInputs \cup UntypedPollInputs : UpdatePoll(c, p[1], p[2])
  \/ \E c \in Conns : StartPoll(c)
  \/ \E c \in Conns : EndPoll(c)
  \/ \E c \in Conns, code \in CodeInputs, name \in NameInputs : Join(c, code, name)
  \/ \E c \in Conns, ch \in ChoiceInputs : Vote(c, ch)
  \/ \E c \in Conns : BadJson(c)
  \/ \E c \in Conns : NullFrame(c)
  \/ \E c \in Conns : UnknownType(c)
  \/ \E c \in Conns : Close(c)

Spec == Init /\ [][Next]_vars

\* ------------------------------------------------------------ the store
\* The store under the shipped clients' discipline: a client identifies once,
\* when its socket opens, hosts send well-formed or one-option polls and
\* players vote for an option index.
\* Codes are drawn from a space of NumStoreCodes values.
StorePollInputs ==
  { <<Str(<<"q">>), Arr(Fill(1))>>, <<Str(<<"q">>), Arr(Fill(2))>> }

StoreChoiceInputs == { Num(0), Num(2) }

StoreNameInputs == { Undefined, Str(<<" ", "n">>) }

IdentifyOnce(c, r) == role[c] = "null" /\ Identify(c, r)

NextStore ==
  \/ \E c \in Conns : Connect(c)
  \/ \E c \in Conns, r \in {"host", "player"} : IdentifyOnce(c, r)
  \/ \E c \in Conns, p \in StorePollInputs : CreateStoreGame(c, p[1], p[2])
  \/ \E c \in Conns, p \in StorePollInputs : UpdatePoll(c, p[1], p[2])
  \/ \E c \in Conns : StartPoll(c)
  \/ \E c \in Conns : EndPoll(c)
  \/ \E c \in Conns, ch \in StoreChoiceInputs : Vote(c, ch)
  \/ \E c \in Conns, code \in StoreCodes, name \in StoreNameInputs : Join(c, code, name)
  \/ \E c \in Conns : Close(c)

SpecStore == Init /\ [][NextStore]_vars

\* ------------------------------------------------- generateGameCode, by draw
\* The do-while loop of generateGameCode, one draw of Math.random per step.
\* The handler is not interleaved with any other: while the loop runs, no
\* other message or close event is handled.
Idle == gen.pc = "idle"

\* host:create_game reaches const code = generateGameCode() (line 119)
EnterGenerate(c, question, options) ==
  /\ Idle /\ running
  /\ readyState[c] = "OPEN"
  /\ IsHost(c) /\ ~MissingPoll(question, options)
  /\ ~OptionThrows(options) /\ Len(TrimmedOptions(options)) >= 2
  /\ gen' = [pc |-> "loop", conn |-> c, poll |-> <<question, options>>,
             code |-> NoCode, collided |-> FALSE]
  /\ UNCHANGED <<games, role, currentGameCode, playerId, readyState, nextId, last, sent,
                 hist, running>>

\* (mutant: the loop has no games.has test)
Draw_AcceptsAny(k) ==
  /\ gen.pc = "loop"
  /\ gen' = [gen EXCEPT !.code = k, !.pc = "done"]
  /\ UNCHANGED <<games, role, currentGameCode, playerId, readyState, nextId, last, sent,
                 hist, running>>

\* code = Math.floor(...).toString(); while (games.has(code))
Draw(k) ==
  /\ gen.pc = "loop"
  /\ gen' = [gen EXCEPT !.code = k,
                        !.pc = IF k \in DOMAIN games THEN "loop" ELSE "done",
                        !.collided = @ \/ k \in DOMAIN games]
  /\ UNCHANGED <<games, role, currentGameCode, playerId, readyState, nextId, last, sent,
                 hist, running>>

\* return code: the handler goes on with the code drawn
Return ==
  /\ gen.pc = "done"
  /\ CreateGameIn({gen.code}, gen.conn, gen.poll[1], gen.poll[2])
  /\ gen' = GenIdle

\* a draw that hits a code no live session has
DrawFree == \E k \in StoreCodes \ DOMAIN games : Draw(k)

NextGen ==
  \/ \E c \in Conns : Idle /\ Connect(c)
  \/ \E c \in Conns, r \in {"host", "player"} : Idle /\ IdentifyOnce(c, r)
  \/ \E c \in Conns, p \in StorePollInputs : EnterGenerate(c, p[1], p[2])
  \/ \E k \in StoreCodes : Draw(k)
  \/ Return
  \/ \E c \in Conns : Idle /\ StartPoll(c)
  \/ \E c \in Conns, code \in StoreCodes : Idle /\ Join(c, code, Str(<<" ", "n">>))
  \/ \E c \in Conns : Idle /\ Close(c)

\* Math.random is fair: a value that stays possible is eventually drawn
SpecGen == Init /\ [][NextGen]_vars /\ WF_vars(DrawFree)

\* ------------------------------------------------ connections that come later
\* A connection accepted after an earlier one has closed.  The closed socket,
\* once neither a hostSocket nor the socket of a roster entry, is reachable
\* from nothing in the server, so its number stands for the new socket, with
\* a fresh closure.
Referenced(c) ==
  \E code \in DOMAIN games :
    \/ games[code].hostSocket = c
    \/ \E p \in DOMAIN games[code].players : games[code].players[p].socket = c

ConnectAgain(c) ==
  /\ readyState[c] = "CLOSED" /\ ~Referenced(c)
  /\ running /\ UNCHANGED <<running, gen, issued>>
  /\ creators' = creators \ {c}
  /\ readyState' = [readyState EXCEPT ![c] = "OPEN"]
  /\ role' = [role EXCEPT ![c] = "null"]
  /\ currentGameCode' = [currentGameCode EXCEPT ![c] = NoCode]
  /\ playerId' = [playerId EXCEPT ![c] = NoId]
  /\ last' = [type |-> "connection", conn |-> c]
  /\ sent' = <<>>
  /\ UNCHANGED <<games, nextId>>

\* Clients that may identify again, over a code space of NumStoreCodes values
NextReuse ==
  \/ \E c \in Conns : Connect(c)
  \/ \E c \in Conns : ConnectAgain(c)
  \/ \E c \in Conns, r \in {"host", "player"} : Identify(c, r)
  \/ \E c \in Conns : CreateStoreGame(c, Str(<<"q">>), Arr(Fill(2)))
  \/ \E c \in Conns : StartPoll(c)
  \/ \E c \in Conns : EndPoll(c)
  \/ \E c \in Conns : Vote(c, Num(0))
  \/ \E c \in Conns, code \in StoreCodes : Join(c, code, Str(<<" ", "n">>))
  \/ \E c \in Conns : Close(c)

SpecReuse == Init /\ [][NextReuse]_vars

\* ------------------------------------------------------- the host's page
\* The two flags of host.js, as the message listener leaves them.
HostView(created, active) == [pollCreated |-> created, pollActive |-> active]

\* let pollCreated = false; let pollActive = false
HostViewInit == HostView(FALSE, FALSE)

\* ws.addEventListener('message', ...): the switch on message.type
HandleHostMessage(view, message) ==
  IF message.type = "host:game_created" THEN HostView(TRUE, FALSE)
  ELSE IF message.type = "host:poll_updated" THEN HostView(view.pollCreated, FALSE)
  ELSE IF message.type = "host:poll_started" THEN HostView(view.pollCreated, TRUE)
  ELSE IF message.type = "host:poll_results" THEN HostView(view.pollCreated, FALSE)
  ELSE view

\* the listener run on each message handed to the page's socket, in order
RECURSIVE HandleAll(_, _, _)
HandleAll(view, c, messages) ==
  IF messages = <<>> THEN view
  ELSE HandleAll(IF Head(messages).to = c
                 THEN HandleHostMessage(view, Head(messages).msg) ELSE view,
                 c, Tail(messages))

\* ================================================================ claims
RECURSIVE SumSeq(_)
SumSeq(q) == IF q = <<>> THEN 0 ELSE Head(q) + SumSeq(Tail(q))

\* number of messages of a type handed to a connection by the last handler
Delivered(d, type) ==
  Cardinality({i \in 1..Len(sent) : sent[i].to = d /\ sent[i].msg.type = type})

Replied(type) == \E i \in 1..Len(sent) : sent[i].to = last.conn /\ sent[i].msg.type = type

ErrorOnly(c, text) == <<[to |-> c, msg |-> Err(text)]>>

Roster(game) == DOMAIN game.players
VotedIn(game) == {p \in Roster(game) : game.players[p].hasVoted}

\* per option index, the roster entries whose choiceIndex is that index
TallyOf(game) ==
  [i \in 1..Len(game.options) |->
     Cardinality({p \in Roster(game) : game.players[p].choiceIndex = Num(2 * (i - 1))})]

\* C1: a player:vote from a player that has already voted in the running round
\* is answered with the "already voted" error alone, and the tally and the
\* player's recorded choiceIndex are what they were before the frame.
C1_DuplicateVoteRejected ==
  [][ \A c \in Conns :
        ( /\ last'.type = "player:vote" /\ last'.conn = c
          /\ role[c] = "player" /\ HasGame(c)
          /\ games[currentGameCode[c]].state = "active"
          /\ playerId[c] \in Roster(games[currentGameCode[c]])
          /\ games[currentGameCode[c]].players[playerId[c]].hasVoted )
        => /\ sent' = ErrorOnly(c, "You have already voted in this poll.")
           /\ currentGameCode[c] \in DOMAIN games'
           /\ countVotes(games'[currentGameCode[c]]) = countVotes(games[currentGameCode[c]])
           /\ playerId[c] \in Roster(games'[currentGameCode[c]])
           /\ games'[currentGameCode[c]].players[playerId[c]].choiceIndex
                = games[currentGameCode[c]].players[playerId[c]].choiceIndex ]_vars

C1_Witness ==
  /\ last.type = "player:vote"
  /\ sent = ErrorOnly(last.conn, "You have already voted in this poll.")
  /\ SumSeq(countVotes(games[currentGameCode[last.conn]])) >= 1

\* C2: the results sent by an accepted host:end_poll count, at every option
\* index, the roster entries whose choiceIndex is that index; the host's
\* host:poll_results and every poll:results carry that same array, and every
\* open connection of the roster gets a poll:results.
C2_EndPollResults ==
  \A i \in 1..Len(sent) :
    sent[i].msg.type = "host:poll_results" =>
      LET game == games[currentGameCode[last.conn]]
      IN /\ last.type = "host:end_poll" /\ sent[i].to = last.conn
         /\ sent[i].msg.results = TallyOf(game)
         /\ \A j \in 1..Len(sent) :
              sent[j].msg.type = "poll:results" => sent[j].msg.results = sent[i].msg.results
         /\ \A p \in Roster(game) :
              readyState[game.players[p].socket] = "OPEN"
                => Delivered(game.players[p].socket, "poll:results") >= 1

C2_Witness ==
  /\ last.type = "host:end_poll"
  /\ \E i, j \in 1..Len(sent) :
       /\ sent[i].msg.type = "host:poll_results"
       /\ sent[j].msg.type = "poll:results" /\ sent[j].to # last.conn
       /\ SumSeq(sent[i].msg.results) >= 1
       /\ Cardinality(Roster(games[currentGameCode[last.conn]])) >= 2

\* C3: in every live session the per-option counts of countVotes sum to at
\* most the roster size and to exactly the number of entries with hasVoted.
C3_TallySumIsVoted ==
  \A code \in DOMAIN games :
    /\ SumSeq(countVotes(games[code])) <= Cardinality(Roster(games[code]))
    /\ SumSeq(countVotes(games[code])) = Cardinality(VotedIn(games[code]))

\* C4: every choiceIndex stored in a roster is an integer i with
\* 0 <= i < len(options) of its session.
C4_ChoiceIsOptionIndex ==
  \A code \in DOMAIN games : \A p \in Roster(games[code]) :
    LET ch == games[code].players[p].choiceIndex
    IN ch.t = "number" =>
         /\ ch.twice % 2 = 0
         /\ 0 <= ch.twice /\ ch.twice < 2 * Len(games[code].options)

\* C5: every live session has at least 2 and at most 6 options, none empty.
C5_OptionsWithinLimits ==
  \A code \in DOMAIN games :
    /\ Len(games[code].options) >= 2
    /\ Len(games[code].options) <= MAX_OPTIONS
    /\ \A i \in 1..Len(games[code].options) : games[code].options[i] # <<>>

\* C6: a create_game or update_poll of a host that carries more than 6 options
\* non-empty after trimming is accepted and stores the first 6 of them, in order.
C6_ExtraOptionsDropped ==
  [][ \A c \in Conns : \A p \in PollInputs :
        ( /\ role[c] = "host" /\ ~MissingPoll(p[1], p[2])
          /\ Len(TrimmedOptions(p[2])) > MAX_OPTIONS )
        => /\ CreateGame(c, p[1], p[2]) =>
                \E code \in DOMAIN games' \ DOMAIN games :
                  games'[code].options = SubSeq(TrimmedOptions(p[2]), 1, MAX_OPTIONS)
           /\ (HasGame(c) /\ UpdatePoll(c, p[1], p[2])) =>
                games'[currentGameCode[c]].options
                  = SubSeq(TrimmedOptions(p[2]), 1, MAX_OPTIONS) ]_vars

\* C7: the question of every live session is non-empty.
C7_QuestionNonEmpty ==
  \A code \in DOMAIN games : games[code].question # <<>>

\* C8: right after an accepted host:start_poll the session of that connection
\* is active and every roster entry has hasVoted = false and no choiceIndex.
C8_StartPollClearsVotes ==
  (last.type = "host:start_poll" /\ Replied("host:poll_started")) =>
    LET game == games[currentGameCode[last.conn]]
    IN /\ game.state = "active"
       /\ \A p \in Roster(game) :
            ~game.players[p].hasVoted /\ game.players[p].choiceIndex = Undefined

C8_Witness ==
  /\ last.type = "host:start_poll" /\ Replied("host:poll_started")
  /\ last.voted >= 1
  /\ Roster(games[currentGameCode[last.conn]]) # {}

\* C9: when the host connection of a session closes, the session leaves the
\* store and every open connection on its roster is handed exactly one
\* game:ended message.
C9_HostCloseEndsSession ==
  [][ \A c \in Conns : \A code \in DOMAIN games :
        ( /\ readyState[c] = "OPEN" /\ readyState'[c] = "CLOSED"
          /\ games[code].hostSocket = c )
        => /\ code \notin DOMAIN games'
           /\ \A p \in Roster(games[code]) :
                readyState'[games[code].players[p].socket] = "OPEN"
                  => Delivered(games[code].players[p].socket, "game:ended")' = 1 ]_vars

\* C10: no session in the store has a closed connection as its hostSocket.
C10_NoSessionOfClosedHost ==
  \A code \in DOMAIN games : readyState[games[code].hostSocket] # "CLOSED"

\* C11: the question, options and state of a session change, and the session
\* leaves the store, only in a step handled for its hostSocket.
C11_OnlyHostChangesSession ==
  [][ \A code \in DOMAIN games :
        ( \/ code \notin DOMAIN games'
          \/ games'[code].question # games[code].question
          \/ games'[code].options # games[code].options
          \/ games'[code].state # games[code].state )
        => last'.conn = games[code].hostSocket ]_vars

\* C12: once a connection has a role, no later step changes it.
C12_RoleFixedOnceSet ==
  [][ \A c \in Conns : role[c] # "null" => role'[c] = role[c] ]_vars

\* C13: a host-only intent (create, update, start, end) handled for a
\* connection whose stored role is not host, and a player-only intent (join,
\* vote) handled for a connection whose stored role is not player, is answered
\* with one error to the sender and changes neither the store nor the
\* session association of any connection.
HostIntents ==
  { "host:create_game", "host:update_poll", "host:start_poll", "host:end_poll" }

PlayerIntents == { "player:join", "player:vote" }

C13_RoleMismatchRejected ==
  [][ \A c \in Conns :
        ( /\ last'.conn = c
          /\ \/ last'.type \in HostIntents /\ role[c] # "host"
             \/ last'.type \in PlayerIntents /\ role[c] # "player" )
        => /\ Len(sent') = 1
           /\ sent'[1].to = c /\ sent'[1].msg.type = "error"
           /\ games' = games
           /\ currentGameCode' = currentGameCode
           /\ playerId' = playerId ]_vars

C13_Witness ==
  /\ last.type = "host:create_game"
  /\ role[last.conn] = "player"
  /\ sent = ErrorOnly(last.conn, "Only hosts can create games.")
  /\ \E code \in DOMAIN games : Roster(games[code]) # {}

\* C14: update, start and end handled for a host connection that has created
\* no session, and vote handled for a player connection that has joined no
\* session, are answered with one error to the sender and leave the store
\* unchanged.
C14_NoSessionRejected ==
  [][ \A c \in Conns :
        ( /\ last'.conn = c
          /\ \/ /\ last'.type \in HostIntents \ {"host:create_game"}
                /\ role[c] = "host" /\ c \notin creators
             \/ /\ last'.type = "player:vote"
                /\ role[c] = "player" /\ playerId[c] = NoId )
        => /\ Len(sent') = 1
           /\ sent'[1].to = c /\ sent'[1].msg.type = "error"
           /\ games' = games ]_vars

UsableOptions(options) ==
  IF options.t # "array" THEN {}
  ELSE { i \in 1..Len(options.a) :
           \E j \in 1..Len(options.a[i].s) : options.a[i].s[j] # " " }

C16_InvalidUpdateRejected ==
  [][ \A c \in Conns : \A p \in PollInputs :
        ( /\ role[c] = "host" /\ HasGame(c)
          /\ ~Truthy(p[1]) \/ Cardinality(UsableOptions(p[2])) < 2
          /\ UpdatePoll(c, p[1], p[2]) )
        => /\ Len(sent') = 1
           /\ sent'[1].to = c /\ sent'[1].msg.type = "error"
           /\ games' = games ]_vars

C16_Witness ==
  /\ last.type = "host:update_poll"
  /\ sent = ErrorOnly(last.conn, "Provide at least two non-empty answer options.")
  /\ HasGame(last.conn)
  /\ games[currentGameCode[last.conn]].state = "active"
  /\ VotedIn(games[currentGameCode[last.conn]]) # {}

\* C17: host:start_poll handled for a host whose session is active, and
\* host:end_poll and player:vote handled for a host, respectively a player,
\* whose session is not active, are answered with one error to the sender and
\* leave the store unchanged: the state stays, no vote is cleared or
\* recorded, and no results are sent.
C17_StateConflictRejected ==
  [][ \A c \in Conns :
        ( /\ last'.conn = c /\ HasGame(c)
          /\ \/ /\ last'.type = "host:start_poll" /\ role[c] = "host"
                /\ games[currentGameCode[c]].state = "active"
             \/ /\ last'.type = "host:end_poll" /\ role[c] = "host"
                /\ games[currentGameCode[c]].state # "active"
             \/ /\ last'.type = "player:vote" /\ role[c] = "player"
                /\ games[currentGameCode[c]].state # "active" )
        => /\ Len(sent') = 1
           /\ sent'[1].to = c /\ sent'[1].msg.type = "error"
           /\ games' = games ]_vars

C17_Witness ==
  /\ last.type = "host:start_poll"
  /\ sent = ErrorOnly(last.conn, "A poll is already in progress.")
  /\ last.voted >= 1
  /\ games[currentGameCode[last.conn]].state = "active"

\* C18: an accepted host:create_game returns a code that is the code of no
\* live session, adds under that code a session in state lobby with an empty
\* roster and the sender as hostSocket, and leaves every session that was in
\* the store as it was; every session is stored under its own code.
C18_CreateAddsFreshSession ==
  [][ ( /\ last'.type = "host:create_game"
        /\ Len(sent') >= 1 /\ sent'[1].msg.type = "host:game_created" )
      => LET code == sent'[1].msg.code
         IN /\ code \notin DOMAIN games
            /\ DOMAIN games' = DOMAIN games \cup {code}
            /\ games'[code].state = "lobby"
            /\ games'[code].players = EmptyMap
            /\ games'[code].hostSocket = last'.conn
            /\ \A k \in DOMAIN games : games'[k] = games[k]
            /\ \A k \in DOMAIN games' : games'[k].code = k ]_vars

C18_Witness ==
  /\ last.type = "host:create_game" /\ Replied("host:game_created")
  /\ Cardinality(DOMAIN games) = 2
  /\ \E k \in DOMAIN games : Roster(games[k]) # {} /\ games[k].state = "active"

\* C19: the code returned by an accepted host:create_game has never been
\* returned before in the life of the process, not even for a session that
\* has been destroyed since.
C19_CodeNeverReissued ==
  [][ ( /\ last'.type = "host:create_game"
        /\ Len(sent') >= 1 /\ sent'[1].msg.type = "host:game_created" )
      => sent'[1].msg.code \notin issued ]_vars

\* C20: no connection is the socket of more than one roster entry, over all
\* the rosters of all live sessions.
PlayerEntries(c) ==
  { e \in UNION { {<<code, p>> : p \in Roster(games[code])} : code \in DOMAIN games } :
      games[e[1]].players[e[2]].socket = c }

C20_OnePlayerPerConnection ==
  \A c \in Conns : Cardinality(PlayerEntries(c)) <= 1

\* C21: in every session whose round is running, no connection is the socket
\* of more than one roster entry that has voted.
VotesOf(game, c) ==
  { p \in Roster(game) : game.players[p].socket = c /\ game.players[p].hasVoted }

C21_OneVotePerConnection ==
  \A code \in DOMAIN games :
    games[code].state = "active" =>
      \A c \in Conns : Cardinality(VotesOf(games[code], c)) <= 1

\* C22: when a connection with role player closes while the session of its
\* currentGameCode is live and holds its playerId, the store afterwards is
\* the store before without that one roster entry (the session, its state,
\* question, options and the other entries are as before), and the host, if
\* open, is handed exactly host:players_updated with the roster that remains.
C22_PlayerCloseRemovesEntry ==
  [][ \A c \in Conns :
        ( /\ last'.type = "close" /\ last'.conn = c
          /\ readyState[c] = "OPEN" /\ readyState'[c] = "CLOSED"
          /\ role[c] = "player" /\ HasGame(c)
          /\ playerId[c] \in Roster(games[currentGameCode[c]]) )
        => LET code == currentGameCode[c]
               host == games[code].hostSocket
           IN /\ DOMAIN games' = DOMAIN games
              /\ \A k \in DOMAIN games \ {code} : games'[k] = games[k]
              /\ Roster(games'[code]) = Roster(games[code]) \ {playerId[c]}
              /\ \A p \in Roster(games'[code]) :
                   games'[code].players[p] = games[code].players[p]
              /\ games'[code].state = games[code].state
              /\ games'[code].question = games[code].question
              /\ games'[code].options = games[code].options
              /\ games'[code].hostSocket = host
              /\ sent' = IF readyState'[host] = "OPEN"
                         THEN << [to |-> host,
                                  msg |-> [type |-> "host:players_updated",
                                           players |-> serializePlayers(games'[code])]] >>
                         ELSE <<>> ]_vars

C22_Witness ==
  /\ last.type = "close"
  /\ Len(sent) = 1 /\ sent[1].msg.type = "host:players_updated"
  /\ Len(sent[1].msg.players) >= 1
  /\ \E code \in DOMAIN games :
       games[code].state = "active" /\ VotedIn(games[code]) # {}

\* C23: no roster of a live session holds an entry whose socket is a closed
\* connection with role player.
C23_NoEntryOfClosedPlayer ==
  \A c \in Conns :
    (readyState[c] = "CLOSED" /\ role[c] = "player") => PlayerEntries(c) = {}

\* C24: every roster entry of a session in state lobby has hasVoted = false
\* and no choiceIndex; an entry with hasVoted = true belongs to a session in
\* state active or ended.
C24_LobbyHasNoVotes ==
  \A code \in DOMAIN games : \A p \in Roster(games[code]) :
    /\ games[code].state = "lobby" =>
         ~games[code].players[p].hasVoted /\ games[code].players[p].choiceIndex = Undefined
    /\ games[code].players[p].hasVoted => games[code].state \in {"active", "ended"}

C24_Witness ==
  /\ last.type = "host:update_poll" /\ Replied("host:poll_updated")
  /\ games[currentGameCode[last.conn]].state = "lobby"
  /\ Cardinality(Roster(games[currentGameCode[last.conn]])) = 2

\* C25: no frame a connection sends ends the server process: after every
\* frame the server is alive to handle the next message of any connection.
C25_NoFrameIsFatal == running

\* C26: a frame that is not JSON, and a message of an unknown type, hand
\* exactly one error to the sender and nothing to anyone else, and change no
\* role, no session, no roster and no association of a connection.
C26_BadFrameErrorOnly ==
  [][ \A c \in Conns :
        /\ (last'.type = "invalid-json" /\ last'.conn = c)
             => sent' = ErrorOnly(c, "Invalid JSON payload received.")
        /\ (last'.type = "unknown" /\ last'.conn = c)
             => sent' = ErrorOnly(c, "Unknown message type received.")
        /\ (last'.type \in {"invalid-json", "unknown"} /\ last'.conn = c)
             => /\ games' = games /\ role' = role
                /\ currentGameCode' = currentGameCode /\ playerId' = playerId
                /\ readyState' = readyState ]_vars

C26_Witness ==
  /\ last.type = "invalid-json"
  /\ sent = ErrorOnly(last.conn, "Invalid JSON payload received.")
  /\ \A d \in Conns : readyState[d] = "OPEN"
  /\ \E code \in DOMAIN games : Roster(games[code]) # {}

\* C27: nothing is handed to a connection that is not open, and the handler
\* still does all its work: an accepted host:start_poll makes the session
\* active with every vote cleared and hands poll:start once per roster entry
\* to each open socket and host:poll_started to the host, whatever roster
\* entries have a closed socket; an accepted player:join adds the entry and
\* hands player:joined to the joiner, whether or not the host socket is open.
EntriesOf(game, d) == { p \in Roster(game) : game.players[p].socket = d }

C27_FanOutSkipsClosed ==
  [][ /\ \A i \in 1..Len(sent') : readyState'[sent'[i].to] = "OPEN"
      /\ \A c \in Conns :
           ( /\ last'.type = "host:start_poll" /\ last'.conn = c
             /\ role[c] = "host" /\ HasGame(c)
             /\ games[currentGameCode[c]].state # "active" )
           => LET code == currentGameCode[c]
              IN /\ games'[code].state = "active"
                 /\ Roster(games'[code]) = Roster(games[code])
                 /\ VotedIn(games'[code]) = {}
                 /\ Delivered(c, "host:poll_started")' = 1
                 /\ \A d \in Conns :
                      Delivered(d, "poll:start")' =
                        IF readyState[d] = "OPEN"
                        THEN Cardinality(EntriesOf(games[code], d)) ELSE 0
      /\ \A c \in Conns : \A code \in DOMAIN games :
           ( /\ role[c] = "player" /\ nextId \in Ids
             /\ Join(c, code, Str(<<" ", "n">>)) )
           => /\ Roster(games'[code]) = Roster(games[code]) \cup {nextId}
              /\ games'[code].players[nextId].socket = c
              /\ Delivered(c, "player:joined")' = 1
              /\ Delivered(games[code].hostSocket, "host:players_updated")' =
                   IF readyState[games[code].hostSocket] = "OPEN" THEN 1 ELSE 0 ]_vars

C27_Witness ==
  /\ last.type = "host:start_poll" /\ Replied("host:poll_started")
  /\ \E p \in Roster(games[currentGameCode[last.conn]]) :
       readyState[games[currentGameCode[last.conn]].players[p].socket] = "CLOSED"

\* C28: the state of a live session changes only from lobby or ended to
\* active and from active to ended; a host:update_poll leaves the state of a
\* session that is active or ended as it is and discards no vote of a
\* running round.
StateTable == { <<"lobby", "active">>, <<"ended", "active">>, <<"active", "ended">> }

C28_StateTableOnly ==
  [][ \A code \in DOMAIN games \cap DOMAIN games' :
        /\ games'[code].state # games[code].state
             => <<games[code].state, games'[code].state>> \in StateTable
        /\ (last'.type = "host:update_poll" /\ games[code].state \in {"active", "ended"})
             => games'[code].state = games[code].state
        /\ (last'.type = "host:update_poll" /\ games[code].state = "active")
             => VotedIn(games[code]) \subseteq VotedIn(games'[code]) ]_vars

\* C29: a player:vote of a player on the roster of an active session that has
\* not voted is either refused for its choice, or accepted: the store changes
\* in that one roster entry only, which gets hasVoted = true and the chosen
\* index, and the handler hands out, in this order, player:voted with that
\* index to the voter and, to the host if its socket is open,
\* host:players_updated with the roster after the vote and
\* host:poll_progress with the per-option counts after the vote; nothing
\* else is sent.
C29_VoteAccepted ==
  [][ \A c \in Conns :
        ( /\ last'.type = "player:vote" /\ last'.conn = c
          /\ role[c] = "player" /\ HasGame(c)
          /\ games[currentGameCode[c]].state = "active"
          /\ playerId[c] \in Roster(games[currentGameCode[c]])
          /\ ~games[currentGameCode[c]].players[playerId[c]].hasVoted )
        => \/ /\ sent' = ErrorOnly(c, "Please select a valid option.")
              /\ games' = games
           \/ LET code == currentGameCode[c]
                  pid == playerId[c]
                  host == games[code].hostSocket
                  ch == games'[code].players[pid].choiceIndex
              IN /\ ch.t = "number"
                 /\ 0 <= ch.twice /\ ch.twice < 2 * Len(games[code].options)
                 /\ games' = [games EXCEPT ![code].players[pid] =
                                [@ EXCEPT !.hasVoted = TRUE, !.choiceIndex = ch]]
                 /\ sent' =
                      << [to |-> c, msg |-> [type |-> "player:voted", choiceIndex |-> ch]] >>
                      \o (IF readyState[host] = "OPEN"
                          THEN << [to |-> host,
                                   msg |-> [type |-> "host:players_updated",
                                            players |-> serializePlayers(games'[code])]],
                                  [to |-> host,
                                   msg |-> [type |-> "host:poll_progress",
                                            results |-> TallyOf(games'[code])]] >>
                          ELSE <<>>) ]_vars

C29_Witness ==
  /\ last.type = "player:vote"
  /\ Len(sent) = 3
  /\ sent[1].msg.type = "player:voted" /\ sent[1].to = last.conn
  /\ sent[3].msg.type = "host:poll_progress" /\ sent[3].to # last.conn
  /\ SumSeq(sent[3].msg.results) = 2

\* C30: a host:update_poll of a host with a live session that carries a
\* question and at least two usable options stores the trimmed question and
\* the usable options, trimmed and in order, clears hasVoted and choiceIndex
\* of every roster entry, hands the host host:poll_updated with the stored
\* values and then host:players_updated with every player unvoted, and then
\* hands poll:reset once per roster entry to each open socket, and nothing
\* else.
ValidatedOptions(options) ==
  LET ks == KeysInOrder(UsableOptions(options))
  IN [k \in 1..Len(ks) |-> Trim(options.a[ks[k]].s)]

C30_UpdateAccepted ==
  [][ \A c \in Conns : \A p \in PollInputs :
        ( /\ role[c] = "host" /\ HasGame(c)
          /\ Truthy(p[1]) /\ Cardinality(UsableOptions(p[2])) >= 2
          /\ UpdatePoll(c, p[1], p[2]) )
        => LET code == currentGameCode[c]
               new == games'[code]
           IN /\ new.question = Trim(p[1].s)
              /\ new.options = ValidatedOptions(p[2])
              /\ Roster(new) = Roster(games[code])
              /\ \A q \in Roster(new) :
                   /\ ~new.players[q].hasVoted
                   /\ new.players[q].choiceIndex = Undefined
                   /\ new.players[q].socket = games[code].players[q].socket
              /\ Len(sent') >= 2
              /\ sent'[1] = [to |-> c, msg |-> [type |-> "host:poll_updated",
                               question |-> new.question, options |-> new.options]]
              /\ sent'[2].to = c /\ sent'[2].msg.type = "host:players_updated"
              /\ Len(sent'[2].msg.players) = Cardinality(Roster(new))
              /\ \A i \in 1..Len(sent'[2].msg.players) : ~sent'[2].msg.players[i].hasVoted
              /\ \A i \in 3..Len(sent') : sent'[i].msg.type = "poll:reset"
              /\ \A d \in Conns :
                   Delivered(d, "poll:reset")' =
                     IF readyState[d] = "OPEN"
                     THEN Cardinality(EntriesOf(games[code], d)) ELSE 0 ]_vars

C30_Witness ==
  /\ last.type = "host:update_poll" /\ Replied("host:poll_updated")
  /\ \E d \in Conns : d # last.conn /\ Delivered(d, "poll:reset") = 2

\* C31: an accepted host:start_poll hands out, in this order,
\* host:players_updated to the host with the whole roster and every player
\* unvoted, poll:start with the session's question and options once per
\* roster entry to each open socket, and host:poll_started to the host as
\* the last message; the question and options are those the session had.
C31_StartPollFanOut ==
  [][ \A c \in Conns :
        ( /\ last'.type = "host:start_poll" /\ last'.conn = c
          /\ role[c] = "host" /\ HasGame(c)
          /\ games[currentGameCode[c]].state # "active" )
        => LET code == currentGameCode[c]
               old == games[code]
               n == Len(sent')
           IN /\ games'[code].question = old.question
              /\ games'[code].options = old.options
              /\ n >= 2
              /\ sent'[1].to = c /\ sent'[1].msg.type = "host:players_updated"
              /\ Len(sent'[1].msg.players) = Cardinality(Roster(old))
              /\ \A i \in 1..Len(sent'[1].msg.players) :
                   /\ ~sent'[1].msg.players[i].hasVoted
                   /\ sent'[1].msg.players[i].id \in Roster(old)
              /\ sent'[n] = [to |-> c, msg |-> [type |-> "host:poll_started"]]
              /\ \A i \in 2..(n - 1) :
                   sent'[i].msg = [type |-> "poll:start", question |-> old.question,
                                   options |-> old.options]
              /\ \A d \in Conns :
                   Cardinality({i \in 2..(n - 1) : sent'[i].to = d}) =
                     IF readyState[d] = "OPEN"
                     THEN Cardinality(EntriesOf(old, d)) ELSE 0 ]_vars

C31_Witness ==
  /\ last.type = "host:start_poll"
  /\ Len(sent) = 4
  /\ sent[2].msg.type = "poll:start" /\ sent[3].msg.type = "poll:start"
  /\ sent[4].msg.type = "host:poll_started"
  /\ last.voted >= 1

\* C32: an accepted player:join, whatever the state of the session, adds one
\* roster entry for the joiner with hasVoted = false and no choiceIndex and
\* changes nothing else in the store; it hands player:joined to the joiner,
\* with the question and options if the session is active and null if not,
\* then host:players_updated with the new roster to the host if its socket is
\* open, then poll:start to the joiner if and only if the session is active.
C32_JoinAccepted ==
  [][ \A c \in Conns : \A code \in DOMAIN games :
        ( /\ role[c] = "player" /\ nextId \in Ids
          /\ Join(c, code, Str(<<" ", "n">>)) )
        => LET old == games[code]
               active == old.state = "active"
               entry == [id |-> nextId, name |-> <<"n">>, socket |-> c,
                         hasVoted |-> FALSE, choiceIndex |-> Undefined]
           IN /\ nextId \notin Roster(old)
              /\ games' = [games EXCEPT ![code].players =
                             [q \in Roster(old) \cup {nextId} |->
                                IF q = nextId THEN entry ELSE old.players[q]]]
              /\ sent' =
                   << [to |-> c,
                       msg |-> [type |-> "player:joined", code |-> code,
                                question |-> IF active THEN old.question ELSE Null,
                                options |-> IF active THEN old.options ELSE Null]] >>
                   \o (IF readyState[old.hostSocket] = "OPEN"
                       THEN << [to |-> old.hostSocket,
                                msg |-> [type |-> "host:players_updated",
                                         players |-> serializePlayers(games'[code])]] >>
                       ELSE <<>>)
                   \o (IF active
                       THEN << [to |-> c,
                                msg |-> [type |-> "poll:start", question |-> old.question,
                                         options |-> old.options]] >>
                       ELSE <<>>) ]_vars

C32_Witness ==
  /\ last.type = "player:join"
  /\ Len(sent) = 3 /\ sent[3].msg.type = "poll:start" /\ sent[3].to = last.conn
  /\ games[currentGameCode[last.conn]].state = "active"
  /\ VotedIn(games[currentGameCode[last.conn]]) # {}

\* C33: a call of generateGameCode made while some code of the space is the
\* code of no live session returns, and what it returns is such a code; a
\* call made while every code of the space is live never returns.
C33_GenerateTerminates ==
  /\ (gen.pc = "loop" /\ StoreCodes \ DOMAIN games # {})
        ~> (gen.pc = "done" /\ gen.code \in StoreCodes \ DOMAIN games)
  /\ [][ (gen.pc = "loop" /\ gen'.pc = "done")
           => gen'.code \in StoreCodes \ DOMAIN games ]_vars
  /\ [][ (gen.pc = "loop" /\ StoreCodes \subseteq DOMAIN games)
           => gen'.pc = "loop" ]_vars

C33_Witness ==
  /\ gen.pc = "done" /\ gen.collided
  /\ gen.code \notin DOMAIN games
  /\ \E code \in DOMAIN games : Roster(games[code]) # {}

\* the loop runs with every code of the space live
C33_WitnessFull ==
  gen.pc = "loop" /\ gen.collided /\ StoreCodes \subseteq DOMAIN games

\* C34: a player:vote changes nothing in the store but hasVoted and
\* choiceIndex of the roster entry under the voter's playerId in the session
\* of its currentGameCode: every other session, and the state, question,
\* options, host and roster membership of that session and every other
\* entry of its roster, are what they were.
C34_VoteFrame ==
  [][ \A c \in Conns :
        (last'.type = "player:vote" /\ last'.conn = c)
        => /\ DOMAIN games' = DOMAIN games
           /\ \A code \in DOMAIN games :
                /\ code # currentGameCode[c] => games'[code] = games[code]
                /\ games'[code].state = games[code].state
                /\ games'[code].question = games[code].question
                /\ games'[code].options = games[code].options
                /\ games'[code].hostSocket = games[code].hostSocket
                /\ Roster(games'[code]) = Roster(games[code])
                /\ \A q \in Roster(games[code]) :
                     /\ q # playerId[c] => games'[code].players[q] = games[code].players[q]
                     /\ games'[code].players[q].socket = games[code].players[q].socket
                     /\ games'[code].players[q].name = games[code].players[q].name ]_vars

C34_Witness ==
  /\ last.type = "player:vote" /\ Replied("player:voted")
  /\ Cardinality(DOMAIN games) = 2
  /\ \E q \in Roster(games[currentGameCode[last.conn]]) :
       ~games[currentGameCode[last.conn]].players[q].hasVoted

\* C35: whenever two connections can both vote in the same running round,
\* under different roster entries, handling their two votes in either order
\* gives the same roster, and so the same results at host:end_poll; the
\* second vote is accepted after the first, and the two votes add exactly
\* two to the counts.
CanVote(c) ==
  /\ readyState[c] = "OPEN" /\ role[c] = "player" /\ HasGame(c)
  /\ games[currentGameCode[c]].state = "active"
  /\ playerId[c] \in Roster(games[currentGameCode[c]])
  /\ ~games[currentGameCode[c]].players[playerId[c]].hasVoted

OptionChoices(game) == { Num(2 * (i - 1)) : i \in 1..Len(game.options) }

C35_VoteOrderIrrelevant ==
  \A c, d \in Conns :
    ( /\ c # d /\ CanVote(c) /\ CanVote(d)
      /\ currentGameCode[c] = currentGameCode[d] /\ playerId[c] # playerId[d] )
    => LET game == games[currentGameCode[c]]
       IN \A a, b \in OptionChoices(game) :
            LET first == MarkVoted(game.players, playerId[c], a)
                cd == MarkVoted(first, playerId[d], b)
                dc == MarkVoted(MarkVoted(game.players, playerId[d], b), playerId[c], a)
            IN /\ ~AlreadyVoted(first[playerId[d]])
               /\ cd = dc
               /\ countVotes([game EXCEPT !.players = cd])
                    = countVotes([game EXCEPT !.players = dc])
               /\ SumSeq(countVotes([game EXCEPT !.players = cd]))
                    = SumSeq(countVotes(game)) + 2

C35_Witness ==
  /\ last.type = "player:vote" /\ Replied("player:voted")
  /\ \E p, q \in Roster(games[currentGameCode[last.conn]]) :
       LET players == games[currentGameCode[last.conn]].players
       IN /\ players[p].socket # players[q].socket
          /\ players[p].hasVoted /\ players[q].hasVoted

\* C36: a player connection whose playerId was issued by a session that has
\* been destroyed, and whose currentGameCode is now the code of a later
\* session of another host, changes nothing in that session by any message
\* other than a new player:join, nor by closing; its player:vote is answered
\* with an error alone.
StaleMember(c) ==
  /\ readyState[c] = "OPEN" /\ IsPlayer(c) /\ playerId[c] # NoId /\ HasGame(c)
  /\ playerId[c] \notin Roster(games[currentGameCode[c]])
  /\ games[currentGameCode[c]].hostSocket # c

C36_StaleMemberHarmless ==
  [][ \A c \in Conns :
        (StaleMember(c) /\ last'.conn = c /\ last'.type # "player:join")
        => /\ currentGameCode[c] \in DOMAIN games'
           /\ games'[currentGameCode[c]] = games[currentGameCode[c]]
           /\ last'.type = "player:vote" =>
                (Len(sent') = 1 /\ sent'[1].to = c /\ sent'[1].msg.type = "error") ]_vars

C36_Witness ==
  /\ last.type = "player:vote" /\ last.conn \in Conns
  /\ StaleMember(last.conn)
  /\ IsActive(games[currentGameCode[last.conn]])
  /\ sent = ErrorOnly(last.conn, "You are not part of this game.")

\* C37: whenever a handler changes the tally of a session that is active
\* before and after it, the handler sends the host a host:poll_progress whose
\* results are the new tally, so that the host's most recent host:poll_progress
\* of the round is the current tally.
C37_ProgressFollowsTally ==
  [][ \A code \in DOMAIN games \cap DOMAIN games' :
        ( /\ IsActive(games[code]) /\ IsActive(games'[code])
          /\ countVotes(games'[code]) # countVotes(games[code]) )
        => \E i \in 1..Len(sent') :
             /\ sent'[i].to = games'[code].hostSocket
             /\ sent'[i].msg = [type |-> "host:poll_progress",
                                results |-> countVotes(games'[code])] ]_vars

\* C38: for a connection that identified as host and never joined as a
\* player, the flags of the host page
\* after it has handled every message of a server handler are the server's
\* state: pollCreated exactly when games holds a session under the
\* connection's code with the connection as hostSocket, pollActive exactly
\* when that session is active.  Stated as a step: a page that agrees with
\* the server before a handler agrees with it after the handler's messages.
ServerView(c) ==
  LET held == HasGame(c) /\ games[currentGameCode[c]].hostSocket = c
  IN HostView(held, held /\ IsActive(games[currentGameCode[c]]))

C38_HostViewAgrees ==
  /\ \A c \in Conns : ServerView(c) = HostViewInit
  /\ [][ \A c \in Conns :
            ( /\ IsHost(c) /\ playerId[c] = NoId
              /\ readyState[c] = "OPEN" /\ readyState'[c] = "OPEN" )
            => HandleAll(ServerView(c), c, sent') = ServerView(c)' ]_vars
====
